---- MODULE Spec2Model ----
(***************************************************************************)
(* A model of the apl package of ktye/iv: array formatting and parsing     *)
(* (apl/fmt.go), the dictionary object (apl/object.go) and the integer     *)
(* number type (apl/int.go).                                               *)
(*                                                                         *)
(* Text is a sequence of runes; a rune is a one-character string.  The     *)
(* APL high minus (U+00AF) is the rune HighMinus.                          *)
(***************************************************************************)
EXTENDS Integers, Sequences, FiniteSets, TLC

VARIABLES
    input,      \* reader: the whole text fed to the reader
    stream,     \* reader: the runes of the input not yet consumed
    rank,       \* reader: the rank every ScanRankArray call is given
    rows,       \* reader: the results of the calls so far, in call order
    flags,      \* reader: the flag reported with each row
    rstate,     \* reader: "idle", "reading", "eof" or "error"
    arr,        \* formatter: the array, a record [Dims, Values]
    fpp,        \* formatter: Format.PP
    text,       \* formatter: the result of ArrayString
    parsed,     \* formatter: the result of ParseArray on text
    fstate,     \* formatter: "idle", "new", "formatted", "parsed" or "panic"
    PP,         \* Quad-PP: Apl.Format.PP
    Fmt,        \* Quad-PP: Apl.Format.Fmt, the format string of each type
    call,       \* Quad-PP: the last call of SetPP or Int.String and its result
    heap,       \* dict: the Dict objects allocated so far; a *Dict is an index
    cAddr,      \* dict: the *Dict c := d.Copy(), 0 before the copy
    order,      \* dict: the keys given to d.Set, in the order of their first Set
    latest,     \* dict: the value given to the most recent d.Set of each key
    dop,        \* dict: the last operation
    dividend,   \* int: the receiver a of a.Div2(b)
    divisor,    \* int: the argument b
    quot,       \* int: what Div2 returned, the value and the flag
    gammaL,     \* gamma: the receiver L of L.Gamma2(R)
    gammaR,     \* gamma: the argument R
    gammaOut    \* gamma: what Gamma2 returned and how it got there

scanVars == <<input, stream, rank, rows, flags, rstate>>
fmtVars == <<arr, fpp, text, parsed, fstate>>
ppVars == <<PP, Fmt, call>>
dictVars == <<heap, cAddr, order, latest, dop>>
intVars == <<dividend, divisor, quot>>
gammaVars == <<gammaL, gammaR, gammaOut>>
vars == <<scanVars, fmtVars, ppVars, dictVars, intVars, gammaVars>>

\* Bounds of the model
MaxLen == 5      \* runes in a reader input
MaxRank == 3     \* largest rank argument of the reader
MaxSize == 6     \* elements of a formatted array
MaxFmtRank == 3  \* rank of a formatted array
MaxPieces == 2   \* pieces (a literal rune or a verb) of a format string
MaxEntries == 1  \* keys of an Object assigned to Quad-PP
MaxHeap == 4     \* Dict objects alive at one time
MaxOps == 4      \* Set and Copy calls in one run
IntBits == 6     \* width of the machine integer int, two's complement
MaxNest == 3     \* nested Gamma2 calls that are followed

----------------------------------------------------------------------------
(* Runes *)

HighMinus == "hm"
NL == "\n"
DigitRunes == <<"0", "1", "2", "3", "4", "5", "6", "7", "8", "9">>
IsDigit(r) == \E i \in 1..10 : DigitRunes[i] = r
DigitValue(r) == (CHOOSE i \in 1..10 : DigitRunes[i] = r) - 1

\* IsTerminator with the newline forgotten
IsTerminatorNoNewline(r) == r \in {";", "]"}

\* fmt.go:202  r == '\n' || r == ';' || r == ']'
IsTerminator(r) == r \in {NL, ";", "]"}
\* fmt.go:217  unicode.IsSpace(r) || r == ',' || r == '[' || r == '(' || r == ')'
IsSkipped(r) == r \in {" ", "\t", ",", "[", "(", ")"}

----------------------------------------------------------------------------
(* Shapes *)

RECURSIVE ProdSeq(_)
ProdSeq(s) == IF s = <<>> THEN 1 ELSE Head(s) * ProdSeq(Tail(s))

\* apl.Prod: the product of a shape; 0 for the empty shape (which is why
\* ScanRankArray sets p = 1 itself when len(shape) == 0).
Prod(shape) == IF shape = <<>> THEN 0 ELSE ProdSeq(shape)

----------------------------------------------------------------------------
(* Integers as text *)

RECURSIVE Decimal(_)
\* the decimal digits of n >= 0
Decimal(n) ==
    IF n < 10 THEN <<DigitRunes[n + 1]>>
    ELSE Decimal(n \div 10) \o <<DigitRunes[(n % 10) + 1]>>

\* fmt.Sprintf of the verbs %v and %d applied to an integer
FormatVerb(i) == IF i < 0 THEN <<"-">> \o Decimal(-i) ELSE Decimal(i)

RECURSIVE Sprintf(_, _)
\* fmt.Sprintf(format, i) for formats made of literal runes and %d / %v
Sprintf(format, i) ==
    IF format = <<>> THEN <<>>
    ELSE IF Head(format) = "%" /\ Len(format) >= 2 /\ format[2] \in {"d", "v"}
         THEN FormatVerb(i) \o Sprintf(SubSeq(format, 3, Len(format)), i)
         ELSE <<Head(format)>> \o Sprintf(Tail(format), i)

RECURSIVE ReplaceN(_, _, _, _)
\* strings.Replace(s, old, new, n) for one-rune old: the first n occurrences
\* (all of them when n < 0)
ReplaceN(s, old, new, n) ==
    IF s = <<>> \/ n = 0 THEN s
    ELSE IF Head(s) = old
         THEN <<new>> \o ReplaceN(Tail(s), old, new, n - 1)
         ELSE <<Head(s)>> \o ReplaceN(Tail(s), old, new, n)

\* Int.String: int.go:21-36
IntString(registered, i) ==
    LET minus == Len(registered) > 1 /\ registered[1] = "-"
        f1 == IF minus THEN Tail(registered) ELSE registered
        format == IF f1 = <<>> THEN <<"%", "v">> ELSE f1
        s == Sprintf(format, i)
    IN  IF minus = FALSE THEN ReplaceN(s, "-", HighMinus, 1) ELSE s

RECURSIVE DigitsValue(_, _)
DigitsValue(s, acc) ==
    IF s = <<>> THEN acc ELSE DigitsValue(Tail(s), 10 * acc + DigitValue(Head(s)))

\* strconv.Atoi: an optional sign and at least one digit, nothing else
Atoi(s) ==
    LET signed == s # <<>> /\ Head(s) \in {"-", "+"}
        body == IF signed THEN Tail(s) ELSE s
        ok == body # <<>> /\ \A k \in 1..Len(body) : IsDigit(body[k])
    IN  IF ok
        THEN [ok |-> TRUE,
              n |-> IF signed /\ Head(s) = "-"
                    THEN -DigitsValue(body, 0) ELSE DigitsValue(body, 0)]
        ELSE [ok |-> FALSE, n |-> 0]

\* ParseInt: int.go:39-45
ParseInt(s) == Atoi(ReplaceN(s, HighMinus, "-", -1))

----------------------------------------------------------------------------
(* Scanning numbers *)

RECURSIVE DigitRun(_)
\* the longest prefix of s made of digits
DigitRun(s) ==
    IF s = <<>> \/ ~IsDigit(Head(s)) THEN <<>> ELSE <<Head(s)>> \o DigitRun(Tail(s))

\* scan.ScanNumber: the lexeme of the number literal at the head of s, an
\* optional high minus and digits; the rune that ends it stays unread.
ScanNumber(s) ==
    LET signed == s # <<>> /\ Head(s) = HighMinus
        digits == DigitRun(IF signed THEN Tail(s) ELSE s)
        lexeme == IF signed THEN <<HighMinus>> \o digits ELSE digits
    IN  [ok |-> digits # <<>>,
         lexeme |-> lexeme,
         rest |-> SubSeq(s, Len(lexeme) + 1, Len(s))]

\* Tower.Parse for a tower holding the integer kind only
TowerParse(lexeme) == ParseInt(lexeme)

----------------------------------------------------------------------------
(* ScanRankArray: fmt.go:194-277.  A result is a record                    *)
(*   kind   "array", "value" (rank 0), "eof" (io.EOF) or "error"           *)
(*   Dims, Values  the MixedArray (Values holds the one value of "value")  *)
(*   rest   the runes left unread                                          *)
(* The inputs of the model hold no '"' rune, so every value is a number.   *)

ScanResult(kind, dims, values, rest) ==
    [kind |-> kind, Dims |-> dims, Values |-> values, rest |-> rest]

\* GrowShape that forgets to divide by the product of the axes already fixed
GrowShapeNoDivide(shape, values) == <<Len(values)>> \o shape

\* fmt.go:209-216: a terminator count above the rank seen so far fixes an axis
GrowShape(shape, values) ==
    IF shape = <<>> THEN <<Len(values)>>
    ELSE <<Len(values) \div Prod(shape)>> \o shape

RECURSIVE FillShapeUnchecked(_, _, _, _, _)
\* FillShape without the test of the product at fmt.go:268
FillShapeUnchecked(values, shape, rnk, i, rest) ==
    IF i <= rnk - Len(shape)
    THEN LET p == IF Len(shape) = 0 THEN 1 ELSE Prod(shape)
         IN  IF p = 0 THEN ScanResult("error", <<>>, <<>>, rest)
             ELSE FillShapeUnchecked(values, <<Len(values) \div p>> \o shape,
                                     rnk, i + 1, rest)
    ELSE ScanResult("array", shape, values, rest)

RECURSIVE FillShape(_, _, _, _, _)
\* fmt.go:260-276: the loop that closes the shape and checks its product
FillShape(values, shape, rnk, i, rest) ==
    IF i <= rnk - Len(shape)
    THEN LET p == IF Len(shape) = 0 THEN 1 ELSE Prod(shape)
         IN  IF p = 0 THEN ScanResult("error", <<>>, <<>>, rest)
             ELSE LET shape1 == <<Len(values) \div p>> \o shape
                  IN  IF Prod(shape1) # Len(values)
                      THEN ScanResult("error", <<>>, <<>>, rest)
                      ELSE FillShape(values, shape1, rnk, i + 1, rest)
    ELSE ScanResult("array", shape, values, rest)

\* fmt.go:248-276: what follows the read loop
FinishScan(values, shape, rnk, rest) ==
    IF Len(values) = 0 THEN ScanResult("eof", <<>>, <<>>, rest)
    ELSE LET rnk1 == IF rnk < 0
                     THEN IF Prod(shape) = Len(values)
                          THEN Len(shape) - 1 ELSE Len(shape)
                     ELSE rnk
         IN  FillShape(values, shape, rnk1, 0, rest)

RECURSIVE ScanLoop(_, _, _, _, _)
\* fmt.go:198-247: the read loop, one rune (or one number) per call
ScanLoop(s, rnk, values, c, shape) ==
    IF s = <<>> THEN FinishScan(values, shape, rnk, s)
    ELSE LET r == Head(s) IN
      IF IsTerminator(r)
      THEN IF Len(values) = 0 THEN ScanLoop(Tail(s), rnk, values, c, shape)
           ELSE IF c + 1 = rnk THEN FinishScan(values, shape, rnk, Tail(s))
           ELSE IF c + 1 > Len(shape)
                THEN ScanLoop(Tail(s), rnk, values, c + 1, GrowShape(shape, values))
                ELSE ScanLoop(Tail(s), rnk, values, c + 1, shape)
      ELSE IF IsSkipped(r) THEN ScanLoop(Tail(s), rnk, values, c, shape)
      ELSE LET num == ScanNumber(s)
               n == TowerParse(num.lexeme)
           IN  IF ~num.ok \/ ~n.ok THEN ScanResult("error", <<>>, <<>>, num.rest)
               ELSE IF rnk = 0 THEN ScanResult("value", <<>>, <<n.n>>, num.rest)
               ELSE ScanLoop(num.rest, rnk, Append(values, n.n), 0, shape)

\* ScanRankArray that reads vectors whatever rank it is given
ScanRankArrayRankOne(s, rnk) == ScanLoop(s, 1, <<>>, 0, <<>>)

ScanRankArray(s, rnk) == ScanLoop(s, rnk, <<>>, 0, <<>>)

\* ParseArray with a nil prototype: fmt.go:168-187
ParseArray(s) == ScanRankArray(s, -1)

----------------------------------------------------------------------------
(* Formatting arrays: fmt.go:52-161.  An array is a record [Dims, Values]; *)
(* a Format is its PP (no format string is registered for the elements).   *)

RECURSIVE Join(_, _)
\* strings.Join
Join(strs, sep) ==
    IF strs = <<>> THEN <<>>
    ELSE IF Len(strs) = 1 THEN strs[1]
    ELSE strs[1] \o sep \o Join(Tail(strs), sep)

\* stringArray: fmt.go:114-120
StringArray(v) ==
    [Dims |-> v.Dims,
     Strings |-> [i \in 1..Len(v.Values) |-> IntString(<<>>, v.Values[i])]]

RECURSIVE IncFrom(_, _, _)
\* the closure inc of ArrayString, fmt.go:79-90, from loop index i on: the
\* index vector after the step and the number of axes that wrapped (-1 when
\* all did)
IncFrom(idx, shape, i) ==
    IF i >= Len(idx) THEN [idx |-> idx, term |-> -1]
    ELSE LET k == Len(idx) - i
             bumped == [idx EXCEPT ![k] = idx[k] + 1]
         IN  IF bumped[k] = shape[k]
             THEN IncFrom([bumped EXCEPT ![k] = 0], shape, i + 1)
             ELSE [idx |-> bumped, term |-> i]

\* inc returning the axis index k where it should return the loop index i
IncReturnsAxis(idx, shape) ==
    LET step == IncFrom(idx, shape, 0)
    IN  [idx |-> step.idx,
         term |-> IF step.term = -1 THEN -1 ELSE Len(idx) - 1 - step.term]

Inc(idx, shape) == IncFrom(idx, shape, 0)

Newlines(n) == [k \in 1..n |-> NL]

RECURSIVE RawTable(_, _, _, _)
\* fmt.go:93-102: what ArrayString writes to the tabwriter from element i on
RawTable(sa, i, size, idx) ==
    IF i >= size THEN <<>>
    ELSE LET step == Inc(idx, sa.Dims)
             nl == IF step.term > 0 THEN Newlines(step.term)
                   ELSE IF step.term = -1 THEN Newlines(1) ELSE <<>>
         IN  sa.Strings[i + 1] \o <<"\t">> \o nl
                 \o RawTable(sa, i + 1, size, step.idx)

RECURSIVE SplitAt(_, _, _)
\* the pieces of s between the runes sep, the last one being what follows
\* the last sep
SplitAt(s, sep, cur) ==
    IF s = <<>> THEN <<cur>>
    ELSE IF Head(s) = sep THEN <<cur>> \o SplitAt(Tail(s), sep, <<>>)
    ELSE SplitAt(Tail(s), sep, Append(cur, Head(s)))

\* the tab-terminated cells of a line
Cells(line) == LET parts == SplitAt(line, "\t", <<>>)
               IN  SubSeq(parts, 1, Len(parts) - 1)
\* the text after the last tab of a line
Trailing(line) == LET parts == SplitAt(line, "\t", <<>>) IN parts[Len(parts)]

\* tabwriter.NewWriter(&buf, 1, 0, 1, ' ', tabwriter.AlignRight): fmt.go:92
MinWidth == 1
Padding == 1

\* the width of column j at line k: the widest cell of column j in the
\* contiguous lines around k that have a cell in column j, plus the padding
ColumnWidth(lines, k, j) ==
    LET has(l) == Len(Cells(lines[l])) >= j
        block == {l \in 1..Len(lines) :
                     \A x \in 1..Len(lines) :
                         ((l <= x /\ x <= k) \/ (k <= x /\ x <= l)) => has(x)}
        widths == {Len(Cells(lines[l])[j]) + Padding : l \in block} \cup {MinWidth}
    IN  CHOOSE w \in widths : \A u \in widths : u <= w

Spaces(n) == [k \in 1..n |-> " "]

RECURSIVE AlignCells(_, _, _)
\* the cells of line k from column j on, each padded on the left
AlignCells(lines, k, j) ==
    LET cells == Cells(lines[k]) IN
    IF j > Len(cells) THEN Trailing(lines[k])
    ELSE Spaces(ColumnWidth(lines, k, j) - Len(cells[j])) \o cells[j]
             \o AlignCells(lines, k, j + 1)

\* text/tabwriter: what the writer has put into the buffer after Flush
TabWriter(raw) ==
    LET parts == SplitAt(raw, NL, <<>>)
        \* every line but the last is ended by a newline
        full == SubSeq(parts, 1, Len(parts) - 1)
        lines == [k \in 1..Len(full) |-> AlignCells(full, k, 1) \o <<NL>>]
        last == IF parts[Len(parts)] = <<>> THEN <<>>
                ELSE AlignCells(parts, Len(parts), 1)
    IN  Join(lines, <<>>) \o last

RECURSIVE JsonVectorBadStride(_, _)
\* JsonVector whose sub-vector i starts at element i instead of i*inc
JsonVectorBadStride(dims, strings) ==
    IF Len(dims) = 1
    THEN <<"[">> \o Join(SubSeq(strings, 1, dims[1]), <<",">>) \o <<"]">>
    ELSE LET vec == [i \in 1..dims[1] |->
                        JsonVectorBadStride(Tail(dims),
                                            SubSeq(strings, i, Len(strings)))]
         IN  <<"[">> \o Join(vec, <<",">>) \o <<"]">>

RECURSIVE JsonVector(_, _)
\* the closure vector of jsonArray: fmt.go:126-137
JsonVector(dims, strings) ==
    IF Len(dims) = 1
    THEN <<"[">> \o Join(SubSeq(strings, 1, dims[1]), <<",">>) \o <<"]">>
    ELSE LET inc == Prod(Tail(dims))
             vec == [i \in 1..dims[1] |->
                        JsonVector(Tail(dims),
                                   SubSeq(strings, (i - 1) * inc + 1, Len(strings)))]
         IN  <<"[">> \o Join(vec, <<",">>) \o <<"]">>

\* jsonArray: fmt.go:123-139
JsonArray(v) == LET sa == StringArray(v) IN JsonVector(sa.Dims, sa.Strings)

RankErrorText ==
    <<"[", "r", "a", "n", "k", " ", "e", "r", "r", "o", "r", "]">>

\* matArray: fmt.go:142-161
MatArray(v) ==
    LET sa == StringArray(v) IN
    IF Len(sa.Dims) = 1 THEN <<"[">> \o Join(sa.Strings, <<",">>) \o <<"]">>
    ELSE IF Len(sa.Dims) # 2 THEN RankErrorText
    ELSE LET row(i) == Join(SubSeq(sa.Strings, (i - 1) * sa.Dims[2] + 1,
                                   i * sa.Dims[2]), <<",">>)
                       \o (IF i < sa.Dims[1] THEN <<";">> ELSE <<>>)
         IN  <<"[">> \o Join([i \in 1..sa.Dims[1] |-> row(i)], <<>>) \o <<"]">>

\* ArrayString: fmt.go:57-110
ArrayString(pp, v) ==
    IF pp = -2 THEN JsonArray(v)
    ELSE IF pp = -3 THEN MatArray(v)
    ELSE LET shape == v.Dims IN
      IF Len(shape) = 0 THEN <<>>
      ELSE IF Len(shape) = 1
      THEN Join([i \in 1..shape[1] |-> IntString(<<>>, v.Values[i])], <<" ">>)
      ELSE LET size == ProdSeq(shape)
               s == TabWriter(RawTable(StringArray(v), 0, size,
                                       [k \in 1..Len(shape) |-> 0]))
           IN  IF Len(s) > 0 /\ s[Len(s)] = NL THEN SubSeq(s, 1, Len(s) - 1) ELSE s

----------------------------------------------------------------------------
(* The rank reader: ScanRankArray called with one rank on one stream until *)
(* it returns io.EOF (TestIv, the `r` reader of package iv).               *)

Alphabet == {"7", "8", " ", NL, "]"}
\* TestIv: the data "7 8\n9"
TestInput == <<"7", " ", "8", NL, "9">>

Texts(n) == UNION {[1..k -> Alphabet] : k \in 0..n}
Ranks == -1..MaxRank

RECURSIVE LeadingTerminators(_)
\* the terminators left unread before the next value
LeadingTerminators(s) ==
    IF s = <<>> THEN 0
    ELSE IF IsTerminator(Head(s)) THEN 1 + LeadingTerminators(Tail(s))
    ELSE IF IsSkipped(Head(s)) THEN LeadingTerminators(Tail(s))
    ELSE 0

HasValue(s) == \E k \in 1..Len(s) : ~IsTerminator(s[k]) /\ ~IsSkipped(s[k])

SeqMax(q) == IF q = <<>> THEN 0 ELSE CHOOSE m \in {q[k] : k \in 1..Len(q)} :
                                        \A k \in 1..Len(q) : q[k] <= m

\* The flag the reader reports with a row (the expected outputs of TestIv):
\* the number of axis terminators that follow the row beyond its own rank;
\* the last row repeats the highest flag of the stream.
RowFlag(rest, before) ==
    IF HasValue(rest) THEN LeadingTerminators(rest) ELSE SeqMax(before)

ReaderIdle ==
    /\ input = <<>> /\ stream = <<>> /\ rank = 0
    /\ rows = <<>> /\ flags = <<>> /\ rstate = "idle"

FmtIdle ==
    /\ arr = [Dims |-> <<>>, Values |-> <<>>] /\ fpp = 0 /\ text = <<>>
    /\ parsed = ScanResult("none", <<>>, <<>>, <<>>) /\ fstate = "idle"

\* the reflect.Type of the keys of Format.Fmt
TypeNames == {"apl.Int", "apl.String"}
NoFormats == [t \in TypeNames |-> <<>>]
NoCall == [op |-> "none", kind |-> "none", n |-> 0, entries |-> <<>>,
           err |-> FALSE, out |-> <<>>]

PPIdle == PP = 0 /\ Fmt = NoFormats /\ call = NoCall

NoOp == [name |-> "none", on |-> "", nested |-> FALSE, key |-> "", dict |-> FALSE,
         n |-> 0]
DictIdle == heap = <<>> /\ cAddr = 0 /\ order = <<>> /\ latest = <<>> /\ dop = NoOp

\* what Div2 returns: (Int(q), true) or (nil, false)
NoQuot == [called |-> FALSE, ok |-> FALSE, nil |-> TRUE, q |-> 0]
IntIdle == dividend = 0 /\ divisor = 0 /\ quot = NoQuot

\* what Gamma2 returns, (Int(v), true) or (nil, false), with the number of
\* nested Gamma2 calls it made, the arguments it gave to Gamma, whether it
\* left by the return after the last else-if and whether the nesting went
\* beyond what is followed; exact is FALSE for the quotient of a division
\* that leaves a remainder, whose value v the model does not give
NoGamma == [called |-> FALSE, ok |-> FALSE, v |-> 0, exact |-> TRUE, calls |-> 0,
            args |-> {}, fell |-> FALSE, cut |-> FALSE]
GammaIdle == gammaL = 0 /\ gammaR = 0 /\ gammaOut = NoGamma

InitReader ==
    /\ FmtIdle /\ PPIdle /\ DictIdle /\ IntIdle /\ GammaIdle
    /\ input \in Texts(MaxLen) \cup {TestInput}
    /\ stream = input
    /\ rank \in Ranks
    /\ rows = <<>>
    /\ flags = <<>>
    /\ rstate = "reading"

\* one call of ScanRankArray by the reader
Read ==
    /\ rstate = "reading"
    /\ LET res == ScanRankArray(stream, rank) IN
         /\ stream' = res.rest
         /\ rstate' = IF res.kind \in {"eof", "error"} THEN res.kind ELSE "reading"
         /\ rows' = IF res.kind \in {"array", "value"}
                    THEN Append(rows, [kind |-> res.kind, Dims |-> res.Dims,
                                       Values |-> res.Values])
                    ELSE rows
         /\ flags' = IF res.kind \in {"array", "value"}
                     THEN Append(flags, RowFlag(res.rest, flags))
                     ELSE flags
    /\ UNCHANGED <<input, rank>>
    /\ UNCHANGED <<fmtVars, ppVars, dictVars, intVars, gammaVars>>

Next == Read

Spec == InitReader /\ [][Next]_vars

----------------------------------------------------------------------------
(* Properties of the reader *)

RowValues == [i \in 1..Len(rows) |-> rows[i].Values]

\* C1: every array ScanRankArray returns without error, for any rank argument,
\* has as many values as the product of its shape; a text whose inferred
\* shape does not fit the number of values yields an error, never an array.
C1_ValuesFillShape ==
    \A i \in 1..Len(rows) :
        rows[i].kind = "array" =>
            /\ rows[i].Dims # <<>>
            /\ Len(rows[i].Values) = ProdSeq(rows[i].Dims)

\* a call with negative rank returned a matrix of two rows
C1_Witness ==
    /\ rank < 0
    /\ Len(rows) = 1
    /\ rows[1].kind = "array"
    /\ Len(rows[1].Dims) = 2
    /\ rows[1].Dims[1] = 2

RECURSIVE NumbersFrom(_, _, _)
\* the numbers written in s, in order: acc is the value of the digits of the
\* number being read, if one is open
NumbersFrom(s, acc, open) ==
    IF s = <<>> THEN (IF open THEN <<acc>> ELSE <<>>)
    ELSE IF IsDigit(Head(s))
    THEN NumbersFrom(Tail(s), 10 * acc + DigitValue(Head(s)), TRUE)
    ELSE (IF open THEN <<acc>> ELSE <<>>) \o NumbersFrom(Tail(s), 0, FALSE)
Numbers(s) == NumbersFrom(s, 0, FALSE)

RECURSIVE Split(_, _, _)
\* the pieces of s between the runes of seps, after the piece cur
Split(s, seps, cur) ==
    IF s = <<>> THEN <<cur>>
    ELSE IF Head(s) \in seps THEN <<cur>> \o Split(Tail(s), seps, <<>>)
    ELSE Split(Tail(s), seps, Append(cur, Head(s)))

\* the numbers of each piece of s
PieceNumbers(s, seps) ==
    LET pieces == Split(s, seps, <<>>)
    IN  [i \in 1..Len(pieces) |-> Numbers(pieces[i])]

\* one vector for each piece that holds a number
VectorsOf(s, seps) == SelectSeq(PieceNumbers(s, seps), LAMBDA v : v # <<>>)

RECURSIVE BlocksFrom(_, _)
\* the runs of pieces that hold numbers, each run as one sequence of numbers;
\* a piece without a number ends the run cur
BlocksFrom(nums, cur) ==
    IF nums = <<>> THEN (IF cur = <<>> THEN <<>> ELSE <<cur>>)
    ELSE IF Head(nums) = <<>>
    THEN (IF cur = <<>> THEN <<>> ELSE <<cur>>) \o BlocksFrom(Tail(nums), <<>>)
    ELSE BlocksFrom(Tail(nums), cur \o Head(nums))

\* one matrix for each block of pieces
MatricesOf(s, seps) == BlocksFrom(PieceNumbers(s, seps), <<>>)

RECURSIVE Flatten(_)
Flatten(q) == IF q = <<>> THEN <<>> ELSE Head(q) \o Flatten(Tail(q))

Terminators == {NL, ";", "]"}

\* the rows of a reading that has ended with io.EOF are the values of the
\* input, cut at the runes of seps
RowsAre(seps) ==
    /\ Flatten(RowValues) = Numbers(input)
    /\ rank = 0 =>
           /\ RowValues = [i \in 1..Len(Numbers(input)) |-> <<Numbers(input)[i]>>]
           /\ \A i \in 1..Len(rows) : rows[i].kind = "value"
    /\ rank = 1 =>
           /\ RowValues = VectorsOf(input, seps)
           /\ \A i \in 1..Len(rows) : rows[i].kind = "array" /\ Len(rows[i].Dims) = 1
    /\ rank = 2 =>
           /\ RowValues = MatricesOf(input, seps)
           /\ \A i \in 1..Len(rows) : rows[i].kind = "array" /\ Len(rows[i].Dims) = 2

----------------------------------------------------------------------------
(* Formatting an array and parsing the text back *)

Elems == {-12, 7}

RECURSIVE ShapesOf(_)
\* the shapes of rank n whose axes hold at most MaxSize elements together
\* (an axis may be empty)
ShapesOf(n) ==
    IF n = 0 THEN {<<>>}
    ELSE {<<d>> \o sh : d \in 0..MaxSize, sh \in ShapesOf(n - 1)}

Shapes == {sh \in UNION {ShapesOf(n) : n \in 0..MaxFmtRank} : Prod(sh) <= MaxSize}
Arrays == UNION {{[Dims |-> sh, Values |-> vs] : vs \in [1..Prod(sh) -> Elems]} :
                 sh \in Shapes}
PPs == {-3, -2, -1, 0}

InitFmt ==
    /\ ReaderIdle /\ PPIdle /\ DictIdle /\ IntIdle /\ GammaIdle
    /\ arr \in Arrays
    /\ fpp \in PPs
    /\ text = <<>>
    /\ parsed = ScanResult("none", <<>>, <<>>, <<>>)
    /\ fstate = "new"

\* jsonArray indexes S.Dims[0] (fmt.go:130): an index out of range for an
\* array with an empty shape
Panics(pp, v) == pp = -2 /\ Len(v.Dims) = 0

\* text <- ArrayString(f, arr)
Format ==
    /\ fstate = "new"
    /\ text' = IF Panics(fpp, arr) THEN <<>> ELSE ArrayString(fpp, arr)
    /\ fstate' = IF Panics(fpp, arr) THEN "panic" ELSE "formatted"
    /\ UNCHANGED <<arr, fpp, parsed>>
    /\ UNCHANGED <<scanVars, ppVars, dictVars, intVars, gammaVars>>

\* parsed <- ParseArray(nil, text)
Parse ==
    /\ fstate = "formatted"
    /\ parsed' = ParseArray(text)
    /\ fstate' = "parsed"
    /\ UNCHANGED <<arr, fpp, text>>
    /\ UNCHANGED <<scanVars, ppVars, dictVars, intVars, gammaVars>>

NextFmt == Format \/ Parse

SpecFmt == InitFmt /\ [][NextFmt]_vars

----------------------------------------------------------------------------
(* Properties of formatting and parsing *)

NonEmpty(a) == \A k \in 1..Len(a.Dims) : a.Dims[k] >= 1
SameArray == parsed.kind = "array" /\ parsed.Dims = arr.Dims
                 /\ parsed.Values = arr.Values

\* C2 as stated (read for arrays that hold at least one element): the text
\* ArrayString writes with PP = -1 for an array of rank >= 1 of any shape,
\* axes of length 1 included, parses back to the same shape and elements.
C2_TabularRoundTripAnyShape ==
    (fstate = "parsed" /\ fpp = -1 /\ Len(arr.Dims) >= 1 /\ NonEmpty(arr))
        => SameArray

\* C2 amended: the tabular text of an array of rank >= 1 with no empty axis
\* parses back to the same shape and elements when its rank is 1 or its
\* first axis is longer than 1.
C2_TabularRoundTrip ==
    (fstate = "parsed" /\ fpp = -1 /\ Len(arr.Dims) >= 1 /\ NonEmpty(arr)
        /\ (Len(arr.Dims) = 1 \/ arr.Dims[1] >= 2))
        => SameArray

\* a rank-3 array with a middle axis of length 1 has made the round trip
C2_Witness ==
    /\ fstate = "parsed" /\ fpp = -1
    /\ Len(arr.Dims) = 3 /\ arr.Dims[1] = 2 /\ arr.Dims[2] = 1 /\ arr.Dims[3] = 2
    /\ parsed.kind = "array"

\* C3 as stated (read for arrays that hold at least one element): the JSON
\* text (PP = -2) of an array of any rank >= 1 and the matrix literal
\* (PP = -3) of an array of rank 1 or 2 parse back to the same shape and
\* elements.
C3_SingleLineRoundTripAnyShape ==
    (fstate = "parsed" /\ Len(arr.Dims) >= 1 /\ NonEmpty(arr)
        /\ (fpp = -2 \/ (fpp = -3 /\ Len(arr.Dims) <= 2)))
        => SameArray

\* C3 amended: for an array with no empty axis, the JSON text of any rank
\* >= 1 parses back to the same shape and elements, and so does the matrix
\* literal of a rank-1 array and of a rank-2 array with more than one row.
C3_SingleLineRoundTrip ==
    (fstate = "parsed" /\ Len(arr.Dims) >= 1 /\ NonEmpty(arr)
        /\ \/ fpp = -2
           \/ fpp = -3 /\ Len(arr.Dims) = 1
           \/ fpp = -3 /\ Len(arr.Dims) = 2 /\ arr.Dims[1] >= 2)
        => SameArray

\* the JSON text of a rank-3 array with a leading axis of length 1 was parsed
C3_Witness ==
    /\ fstate = "parsed" /\ fpp = -2
    /\ Len(arr.Dims) = 3 /\ arr.Dims[1] = 1 /\ arr.Dims[2] = 2 /\ arr.Dims[3] = 2
    /\ parsed.kind = "array"

RECURSIVE Layout(_, _, _, _)
\* the tokens of a text (its runs of runes other than space and newline) and,
\* for each token, the number of newlines between it and the next token
Layout(s, cur, toks, nls) ==
    LET closed == IF cur = <<>> THEN toks ELSE Append(toks, cur)
        gaps == IF cur = <<>> THEN nls ELSE Append(nls, 0)
    IN  IF s = <<>> THEN [toks |-> closed, nls |-> gaps]
        ELSE IF Head(s) = NL
             THEN Layout(Tail(s), <<>>, closed,
                         IF gaps = <<>> THEN gaps
                         ELSE [gaps EXCEPT ![Len(gaps)] = gaps[Len(gaps)] + 1])
        ELSE IF Head(s) = " " THEN Layout(Tail(s), <<>>, closed, gaps)
        ELSE Layout(Tail(s), Append(cur, Head(s)), toks, nls)

\* the number of trailing axes of dims the first i elements fill completely
AxesCompleted(dims, i) ==
    Cardinality({k \in 1..Len(dims) :
                    i % ProdSeq(SubSeq(dims, Len(dims) - k + 1, Len(dims))) = 0})

ElementStrings == [i \in 1..Len(arr.Values) |-> IntString(<<>>, arr.Values[i])]
SumLen(strs) == Len(Join(strs, <<>>))

\* C10: with PP outside {-2, -3}, in the text of an array of rank n >= 2 with
\* no empty axis an element that completes exactly k axes (1 <= k < n) is
\* followed by exactly k newlines and an element that completes none by none;
\* the text never ends with a newline; a rank-1 array is its elements joined
\* by single spaces; an empty shape gives the empty text.
C10_NewlinesPerAxis ==
    (fstate \in {"formatted", "parsed"} /\ fpp \notin {-2, -3}) =>
        LET lay == Layout(text, <<>>, <<>>, <<>>)
            n == Len(arr.Dims)
            size == Len(arr.Values)
        IN  /\ n = 0 => text = <<>>
            /\ n = 1 => /\ lay.toks = ElementStrings
                        /\ \A i \in 1..size : lay.nls[i] = 0
                        /\ Len(text) = SumLen(ElementStrings)
                                         + (IF size = 0 THEN 0 ELSE size - 1)
            /\ (n >= 2 /\ NonEmpty(arr)) =>
                   /\ lay.toks = ElementStrings
                   /\ \A i \in 1..(size - 1) :
                          lay.nls[i] = AxesCompleted(arr.Dims, i)
            /\ text = <<>> \/ text[Len(text)] # NL

\* a rank-3 array with two planes of two rows each was formatted as a table
C10_Witness ==
    /\ fstate = "formatted" /\ fpp = -1
    /\ arr.Dims = <<2, 2, 1>>
    /\ Len(text) > 0

----------------------------------------------------------------------------
(* Quad-PP: SetPP (fmt.go:28-50) and Int.String (int.go:21-36).            *)
(* A value assigned to Quad-PP is a record                                 *)
(*   kind     "EmptyArray", "Int", "Number" (a number whose ToIndex        *)
(*            reports false), "String" or "Object"                         *)
(*   n        the integer of an Int                                        *)
(*   entries  the keys of an Object in Keys() order: the type of the key   *)
(*            and what At(key) returns, nil, a String or another value     *)

RECURSIVE PieceSeqs(_)
PieceSeqs(n) ==
    IF n = 0 THEN {<<>>}
    ELSE {<<>>} \cup {<<pc>> \o q : pc \in {"-", "%d"}, q \in PieceSeqs(n - 1)}

RECURSIVE Runes(_)
\* the runes of a sequence of pieces
Runes(q) ==
    IF q = <<>> THEN <<>>
    ELSE (IF Head(q) = "%d" THEN <<"%", "d">> ELSE <<Head(q)>>) \o Runes(Tail(q))

\* format strings for an integer: literal '-' runes around one %d verb
Formats ==
    {Runes(q) : q \in {x \in PieceSeqs(MaxPieces) :
                          Cardinality({k \in 1..Len(x) : x[k] = "%d"}) = 1}}

EntryValues ==
    {[t |-> "nil", s |-> <<>>], [t |-> "Int", s |-> <<>>]}
        \cup {[t |-> "String", s |-> f] : f \in Formats}
Entries == [key : TypeNames, val : EntryValues]
EntrySeqs == UNION {[1..k -> Entries] : k \in 0..MaxEntries}

IndexValues == {-1, 0, 3}
IntArgs == {-12, 0, 7}

Value(kind, n, entries) == [kind |-> kind, n |-> n, entries |-> entries]
PPArgs ==
    {Value("EmptyArray", 0, <<>>), Value("Number", 0, <<>>),
     Value("String", 0, <<>>)}
        \cup {Value("Int", n, <<>>) : n \in IndexValues}
        \cup {Value("Object", 0, es) : es \in EntrySeqs}

RECURSIVE Register(_, _)
\* fmt.go:35-42: the format strings after the loop over the keys
Register(fm, entries) ==
    IF entries = <<>> THEN fm
    ELSE LET e == Head(entries)
         IN  Register(IF e.val.t # "nil" /\ e.val.t = "String"
                      THEN [fm EXCEPT ![e.key] = e.val.s] ELSE fm,
                      Tail(entries))

\* Int.ToIndex: int.go:14-16
ToIndex(R) == [i |-> R.n, ok |-> R.kind = "Int"]

\* SetPP: fmt.go:28-50.  The result: the new PP and Fmt, and whether an
\* error is returned.
SetPPResult(R) ==
    IF R.kind = "EmptyArray"
    THEN [PP |-> 0, Fmt |-> NoFormats, err |-> FALSE]
    ELSE IF R.kind = "Object"
    THEN [PP |-> PP, Fmt |-> Register(Fmt, R.entries), err |-> TRUE]
    ELSE IF R.kind \in {"Int", "Number"} /\ ToIndex(R).ok
    THEN [PP |-> ToIndex(R).i, Fmt |-> Fmt, err |-> FALSE]
    ELSE [PP |-> PP, Fmt |-> Fmt, err |-> TRUE]

InitPP ==
    /\ ReaderIdle /\ FmtIdle /\ DictIdle /\ IntIdle /\ GammaIdle
    /\ PP = 0
    /\ Fmt = NoFormats
    /\ call = NoCall

SetPP(R) ==
    /\ LET res == SetPPResult(R) IN
         /\ PP' = res.PP
         /\ Fmt' = res.Fmt
         /\ call' = [op |-> "SetPP", kind |-> R.kind, n |-> R.n,
                     entries |-> R.entries, err |-> res.err, out |-> <<>>]
    /\ UNCHANGED <<scanVars, fmtVars, dictVars, intVars, gammaVars>>

\* i.String(a)
String(i) ==
    /\ call' = [op |-> "String", kind |-> "Int", n |-> i, entries |-> <<>>,
                err |-> FALSE, out |-> IntString(Fmt["apl.Int"], i)]
    /\ UNCHANGED <<PP, Fmt>>
    /\ UNCHANGED <<scanVars, fmtVars, dictVars, intVars, gammaVars>>

NextPP == (\E R \in PPArgs : SetPP(R)) \/ (\E i \in IntArgs : String(i))

SpecPP == InitPP /\ [][NextPP]_vars

----------------------------------------------------------------------------
(* Properties of Quad-PP *)

\* C4: SetPP returns no error for an integer (and sets PP to it), for an
\* Object (and registers its format strings) and for the empty array (and
\* resets PP and the format strings); for every other value it returns an
\* error.
C4_SetPPAccepts ==
    call.op = "SetPP" =>
        /\ call.err = FALSE <=> call.kind \in {"Int", "Object", "EmptyArray"}
        /\ call.kind = "Int" => PP = call.n
        /\ call.kind = "EmptyArray" => PP = 0 /\ Fmt = NoFormats
        /\ call.kind = "Object" =>
               \A k \in 1..Len(call.entries) :
                   call.entries[k].val.t = "String" =>
                       \E j \in k..Len(call.entries) :
                           /\ call.entries[j].key = call.entries[k].key
                           /\ call.entries[j].val.t = "String"
                           /\ Fmt[call.entries[k].key] = call.entries[j].val.s

RECURSIVE Plain(_)
\* the digits of the absolute value
Plain(n) == IF n < 0 THEN Plain(-n) ELSE Decimal(n)

\* C8: Int.String with a registered format that does not begin with '-'
\* returns the fmt output with every '-' rewritten to the high minus; with a
\* format that begins with '-' it drops that rune from the format and
\* returns the fmt output as it is; with no registered format a negative
\* integer prints as the high minus followed by the digits of its absolute
\* value.
C8_IntStringMinus ==
    call.op = "String" =>
        LET f == Fmt["apl.Int"]
            i == call.n
        IN  IF f = <<>>
            THEN call.out = (IF i < 0 THEN <<HighMinus>> ELSE <<>>) \o Plain(i)
            ELSE IF f[1] = "-"
            THEN call.out = Sprintf(Tail(f), i)
            ELSE /\ call.out = ReplaceN(Sprintf(f, i), "-", HighMinus, -1)
                 /\ \A k \in 1..Len(call.out) : call.out[k] # "-"

----------------------------------------------------------------------------
(* Dict: object.go:47-111.  A Dict object is a record [K, M]: the slice of *)
(* keys and the map, a function on the keys it holds (the nil map is the   *)
(* empty function).  A value is a record [t, v]: an Int v, or the *Dict at *)
(* heap index v, or nil.  Keys are Strings, which Copy returns unchanged.  *)

KeySet == {"a", "b"}
IntValues == {1, 2}
Nil == [t |-> "nil", v |-> 0]
IntValue(n) == [t |-> "Int", v |-> n]
DictValue(a) == [t |-> "Dict", v |-> a]
EmptyMap == [k \in {} |-> Nil]

\* Dict.Keys: object.go:52-54
Keys(h, a) == h[a].K

\* Dict.At: object.go:56-61
At(h, a, key) == IF key \in DOMAIN h[a].M THEN h[a].M[key] ELSE Nil

RECURSIVE CopyDict(_, _)
RECURSIVE CopyEntries(_, _, _, _)
RECURSIVE CopyEntriesShallow(_, _, _, _)

\* Value.Copy: an Int is its own copy, a *Dict is copied by Dict.Copy.
\* The result: the heap after the copy and the copy.
CopyValue(h, v) ==
    IF v.t = "Dict"
    THEN LET r == CopyDict(h, v.v) IN [heap |-> r.heap, val |-> DictValue(r.addr)]
    ELSE [heap |-> h, val |-> v]

\* the loop over d.M of Dict.Copy that stores v where it should store v.Copy()
CopyEntriesShallow(h, a, ks, m) ==
    [heap |-> h, M |-> [k \in DOMAIN h[a].M |-> h[a].M[k]]]

\* object.go:104-109: the loop over d.M of Dict.Copy, keys ks still to copy
CopyEntries(h, a, ks, m) ==
    IF ks = <<>> THEN [heap |-> h, M |-> m]
    ELSE LET k == Head(ks) IN
         IF k \notin DOMAIN h[a].M THEN CopyEntries(h, a, Tail(ks), m)
         ELSE LET cp == CopyValue(h, h[a].M[k])
              IN  CopyEntries(cp.heap, a, Tail(ks),
                              [x \in DOMAIN m \cup {k} |->
                                  IF x = k THEN cp.val ELSE m[x]])

\* Dict.Copy: object.go:96-111.  The result: the heap after the copy and the
\* index of the new Dict.
CopyDict(h, a) ==
    LET r == CopyEntries(h, a, h[a].K, EmptyMap)
    IN  [heap |-> Append(r.heap, [K |-> h[a].K, M |-> r.M]),
         addr |-> Len(r.heap) + 1]

\* Dict.Set: object.go:66-75.  The key is appended to K before the value is
\* copied, so v.Copy() reads the heap that already holds the new K.
DictSet(h, a, key, v) ==
    LET h1 == IF key \in DOMAIN h[a].M THEN h
              ELSE [h EXCEPT ![a].K = Append(h[a].K, key)]
        cp == CopyValue(h1, v)
    IN  [cp.heap EXCEPT ![a].M = [x \in DOMAIN cp.heap[a].M \cup {key} |->
                                     IF x = key THEN cp.val ELSE cp.heap[a].M[x]]]

RECURSIVE Reach(_, _)
\* the Dict objects the program can reach from Dict a by At
Reach(h, a) ==
    {a} \cup UNION {IF h[a].M[k].t = "Dict" THEN Reach(h, h[a].M[k].v) ELSE {} :
                    k \in DOMAIN h[a].M}

RECURSIVE Deep(_, _)
\* a value as the program sees it: an Int, or the keys of a Dict in Keys()
\* order and the value At returns for each key it holds
Deep(h, v) ==
    IF v.t = "Dict"
    THEN [t |-> "Dict", v |-> 0, K |-> h[v.v].K,
          M |-> [k \in DOMAIN h[v.v].M |-> Deep(h, h[v.v].M[k])]]
    ELSE [t |-> v.t, v |-> v.v, K |-> <<>>, M |-> EmptyMap]

\* the *Dict d
dAddr == 1
Held == Reach(heap, dAddr) \cup (IF cAddr = 0 THEN {} ELSE Reach(heap, cAddr))
\* Set is called on d itself, on c and on the Dicts reached through c
Targets == {dAddr} \cup (IF cAddr = 0 THEN {} ELSE Reach(heap, cAddr))

RECURSIVE Walk(_, _)
RECURSIVE WalkKeys(_, _, _)
\* the Dicts met from Dict a, a first, then those under its keys in K order
Walk(h, a) == <<a>> \o WalkKeys(h, a, h[a].K)
WalkKeys(h, a, ks) ==
    IF ks = <<>> THEN <<>>
    ELSE LET v == At(h, a, Head(ks))
         IN  (IF v.t = "Dict" THEN Walk(h, v.v) ELSE <<>>) \o WalkKeys(h, a, Tail(ks))

RECURSIVE Uniq(_)
\* a sequence without the later occurrences of its elements
Uniq(s) ==
    IF s = <<>> THEN <<>>
    ELSE LET r == Uniq(SubSeq(s, 1, Len(s) - 1))
             x == s[Len(s)]
         IN  IF \E i \in 1..Len(r) : r[i] = x THEN r ELSE Append(r, x)

\* The Dicts a pointer still leads to, d first.
Live(h, ca) == Uniq(Walk(h, dAddr) \o (IF ca = 0 THEN <<>> ELSE Walk(h, ca)))
Moved(live, a) == CHOOSE i \in 1..Len(live) : live[i] = a
\* The garbage collector: a Dict no pointer leads to any more (the value a
\* Set has overwritten) is dropped; the others are kept in the order of Live.
Collect(h, live) ==
    [i \in 1..Len(live) |->
        [K |-> h[live[i]].K,
         M |-> [k \in DOMAIN h[live[i]].M |->
                   IF h[live[i]].M[k].t = "Dict"
                   THEN DictValue(Moved(live, h[live[i]].M[k].v))
                   ELSE h[live[i]].M[k]]]]

InitDict ==
    /\ ReaderIdle /\ FmtIdle /\ PPIdle /\ IntIdle /\ GammaIdle
    /\ heap = <<[K |-> <<>>, M |-> EmptyMap]>>
    /\ cAddr = 0
    /\ order = <<>>
    /\ latest = EmptyMap
    /\ dop = NoOp

\* the bookkeeping of a Set of key to the value v on Dict a: the order of the
\* first Sets on d and the value each key of d was last set to, as it is when
\* Set is called
Noted(a, key, v) ==
    /\ order' = IF a = dAddr /\ ~\E i \in 1..Len(order) : order[i] = key
                THEN Append(order, key) ELSE order
    /\ latest' = IF a = dAddr
                 THEN [x \in DOMAIN latest \cup {key} |->
                          IF x = key THEN Deep(heap, v) ELSE latest[x]]
                 ELSE latest

\* a.Set(key, v)
Set(a, key, v) ==
    /\ dop.n < MaxOps
    /\ LET h == DictSet(heap, a, key, v)
           live == Live(h, cAddr)
       IN  /\ heap' = Collect(h, live)
           /\ cAddr' = IF cAddr = 0 THEN 0 ELSE Moved(live, cAddr)
    /\ Noted(a, key, v)
    /\ dop' = [name |-> "Set", on |-> IF a = dAddr THEN "d" ELSE "c",
               nested |-> a \notin {dAddr, cAddr}, key |-> key,
               dict |-> v.t = "Dict", n |-> dop.n + 1]
    /\ UNCHANGED <<scanVars, fmtVars, ppVars, intVars, gammaVars>>

\* a.Set(key, Int(n))
SetInt(a, key, n) == Set(a, key, IntValue(n))

\* a.Set(key, v) for the *Dict v at index src
SetDict(a, key, src) ==
    /\ Cardinality(Held) + Cardinality(Reach(heap, src)) <= MaxHeap
    /\ Set(a, key, DictValue(src))

\* c := d.Copy()
Copy ==
    /\ cAddr = 0
    /\ dop.n < MaxOps
    /\ Len(heap) + Cardinality(Reach(heap, dAddr)) <= MaxHeap
    /\ LET r == CopyDict(heap, dAddr)
           live == Live(r.heap, r.addr)
       IN  /\ heap' = Collect(r.heap, live)
           /\ cAddr' = Moved(live, r.addr)
    /\ dop' = [name |-> "Copy", on |-> "d", nested |-> FALSE, key |-> "",
               dict |-> FALSE, n |-> dop.n + 1]
    /\ UNCHANGED <<order, latest>>
    /\ UNCHANGED <<scanVars, fmtVars, ppVars, intVars, gammaVars>>

NextDict ==
    \/ \E a \in Targets, key \in KeySet, n \in IntValues : SetInt(a, key, n)
    \/ \E a \in Targets, key \in KeySet, src \in Held : SetDict(a, key, src)
    \/ Copy

SpecDict == InitDict /\ [][NextDict]_vars

----------------------------------------------------------------------------
(* Properties of Dict *)

\* C5: after any sequence of Set calls on the Dict d that starts empty, Keys()
\* lists every key that was set once, in the order of the first Set of each
\* key (so a Set of an existing key changes neither its length nor its order);
\* At(k) returns the value of the most recent Set of k, and nil for a key
\* that was never set.
C5_SetKeepsKeysAndValues ==
    /\ Keys(heap, dAddr) = order
    /\ \A i, j \in 1..Len(Keys(heap, dAddr)) :
           i # j => Keys(heap, dAddr)[i] # Keys(heap, dAddr)[j]
    /\ \A k \in KeySet :
           Deep(heap, At(heap, dAddr, k)) =
               IF k \in DOMAIN latest THEN latest[k] ELSE Deep(heap, Nil)

\* C6: once c := d.Copy() is made, a Set on c or on a Dict reached through c
\* leaves the keys of d and what At returns for each of them as they were,
\* at every depth, and a Set on d leaves c as it was.
C6_CopyIsIndependent ==
    [][cAddr # 0 =>
          /\ dop'.on = "c" =>
                 Deep(heap', DictValue(dAddr)) = Deep(heap, DictValue(dAddr))
          /\ dop'.on = "d" =>
                 Deep(heap', DictValue(cAddr')) = Deep(heap, DictValue(cAddr))]_vars

\* a Set on a Dict nested in c, after which c differs from d, which holds a
\* nested Dict too
C6_Witness ==
    /\ cAddr # 0
    /\ dop.name = "Set" /\ dop.on = "c" /\ dop.nested
    /\ \E k \in DOMAIN heap[dAddr].M : heap[dAddr].M[k].t = "Dict"
    /\ Deep(heap, DictValue(cAddr)) # Deep(heap, DictValue(dAddr))

----------------------------------------------------------------------------
(* Int.Div2: int.go:85-95.  An int is IntBits wide; arithmetic wraps.       *)

RECURSIVE TwoTo(_)
\* 2 to the power n
TwoTo(n) == IF n = 0 THEN 1 ELSE 2 * TwoTo(n - 1)

MinInt == -TwoTo(IntBits - 1)
MaxInt == TwoTo(IntBits - 1) - 1
Ints == MinInt..MaxInt

\* the int a mathematical result is stored as
Wrap(x) == ((x - MinInt) % TwoTo(IntBits)) + MinInt

Magnitude(x) == IF x < 0 THEN -x ELSE x
\* the quotient a / n of Go, truncated toward zero, for n # 0
Quo(x, n) ==
    Wrap(IF (x < 0) = (n < 0) THEN Magnitude(x) \div Magnitude(n) ELSE -(Magnitude(x) \div Magnitude(n)))

\* Int.Div2: int.go:85-95
Div2(x, y) ==
    IF y = 0 THEN [called |-> TRUE, ok |-> FALSE, nil |-> TRUE, q |-> 0]
    ELSE LET r == Quo(x, y)
         IN  IF Wrap(r * y) = x
             THEN [called |-> TRUE, ok |-> TRUE, nil |-> FALSE, q |-> r]
             ELSE [called |-> TRUE, ok |-> FALSE, nil |-> TRUE, q |-> 0]

InitInt ==
    /\ ReaderIdle /\ FmtIdle /\ PPIdle /\ DictIdle /\ GammaIdle
    /\ dividend \in Ints
    /\ divisor \in Ints
    /\ quot = NoQuot

\* a.Div2(b)
CallDiv2 ==
    /\ ~quot.called
    /\ quot' = Div2(dividend, divisor)
    /\ UNCHANGED <<dividend, divisor>>
    /\ UNCHANGED <<scanVars, fmtVars, ppVars, dictVars, gammaVars>>

NextInt == CallDiv2

SpecInt == InitInt /\ [][NextInt]_vars

----------------------------------------------------------------------------
(* Properties of Int *)

\* C7: Div2(a, b) returns (q, true) exactly when b is not 0 and divides a
\* without remainder, and then q * b = a as mathematical integers, for every
\* pair of machine integers, MinInt and -1 included; otherwise it returns
\* (nil, false).
C7_Div2Exact ==
    quot.called =>
        /\ quot.ok <=> (divisor # 0 /\ dividend % Magnitude(divisor) = 0)
        /\ quot.ok => ~quot.nil /\ quot.q * divisor = dividend
        /\ ~quot.ok => quot.nil

----------------------------------------------------------------------------------------------------------------------------------------
(* Int.Gamma and Int.Gamma2: int.go:128-188.                                *)
(* The arguments are ints of IntBits bits and their sums and differences    *)
(* wrap.  The factorials are kept exact: Gamma refuses arguments above 20   *)
(* and 20! is below 2^63, so in the program they never wrap.  A factorial   *)
(* does not fit a model integer; it is kept as the exponent of each prime   *)
(* in it, and products add the exponents.                                   *)

GammaLimit == 20

\* the primes a factor k of the loop of Gamma can hold
Primes == {p \in 2..GammaLimit : \A q \in 2..(p - 1) : p % q # 0}
\* the powers of p that a factor k can hold
PowersOf(p) == {q \in 2..GammaLimit : \A r \in Primes : q % r = 0 => r = p}

\* int.go:134-137: n after the loop, the product of k = 1..i
Factorial(i) ==
    [p \in Primes |->
        Cardinality({kq \in (1..i) \X PowersOf(p) : kq[1] % kq[2] = 0})]

\* Int.Gamma: int.go:128-140
Gamma(i) ==
    IF i < 0 \/ i > GammaLimit THEN [ok |-> FALSE, n |-> Factorial(0)]
    ELSE IF i = 0 THEN [ok |-> TRUE, n |-> Factorial(0)]
    ELSE [ok |-> TRUE, n |-> Factorial(i)]

\* x * y
Times(x, y) == [p \in Primes |-> x[p] + y[p]]
\* x / y leaves no remainder
Divides(y, x) == \A p \in Primes : y[p] <= x[p]
\* the int x / y when y divides x
Quotient(x, y) ==
    LET e == [p \in Primes |-> x[p] - y[p]]
    IN  (2 ^ e[2]) * (3 ^ e[3]) * (5 ^ e[5]) * (7 ^ e[7]) * (11 ^ e[11])
            * (13 ^ e[13]) * (17 ^ e[17]) * (19 ^ e[19])

\* the closure m1exp that always answers 1
M1expOne(n) == 1

\* int.go:142-147: the closure m1exp
M1exp(n) == IF n % 2 = 0 THEN 1 ELSE -1

GammaResult(ok, v, args, fell, cut) ==
    [called |-> TRUE, ok |-> ok, v |-> v, exact |-> TRUE, calls |-> 0,
     args |-> args, fell |-> fell, cut |-> cut]

\* what a branch returns with the result r of its nested Gamma2 call
Nested(r, sign) ==
    [r EXCEPT !.calls = @ + 1, !.v = IF r.ok THEN sign * r.v ELSE 0]

RECURSIVE Gamma2At(_, _, _)
\* Int.Gamma2: int.go:141-188, following at most fuel nested calls
Gamma2At(L, R, fuel) ==
    LET d == Wrap(R - L) IN
    IF L >= 0 /\ R >= 0 /\ d >= 0
    THEN IF ~Gamma(L).ok THEN GammaResult(FALSE, 0, {L}, FALSE, FALSE)
         ELSE IF ~Gamma(R).ok THEN GammaResult(FALSE, 0, {L, R}, FALSE, FALSE)
         ELSE IF ~Gamma(d).ok THEN GammaResult(FALSE, 0, {L, R, d}, FALSE, FALSE)
         ELSE LET rg == Gamma(R).n
                  den == Times(Gamma(L).n, Gamma(d).n)
              IN  IF Divides(den, rg)
                  THEN GammaResult(TRUE, Quotient(rg, den), {L, R, d}, FALSE, FALSE)
                  ELSE [GammaResult(TRUE, 0, {L, R, d}, FALSE, FALSE)
                           EXCEPT !.exact = FALSE]
    ELSE IF L >= 0 /\ R >= 0 /\ d < 0
    THEN GammaResult(TRUE, 0, {}, FALSE, FALSE)
    ELSE IF L >= 0 /\ R < 0 /\ d < 0
    THEN IF fuel = 0 THEN GammaResult(FALSE, 0, {}, FALSE, TRUE)
         ELSE Nested(Gamma2At(L, Wrap(L - Wrap(1 + R)), fuel - 1), M1exp(L))
    ELSE IF L < 0 /\ R >= 0 /\ d >= 0
    THEN GammaResult(TRUE, 0, {}, FALSE, FALSE)
    ELSE IF L < 0 /\ R < 0 /\ d >= 0
    THEN IF fuel = 0 THEN GammaResult(FALSE, 0, {}, FALSE, TRUE)
         ELSE LET al == Wrap(1 + L)
                  al1 == IF al < 0 THEN Wrap(-al) ELSE al
              IN  Nested(Gamma2At(Wrap(-Wrap(R + 1)), al1, fuel - 1), M1exp(d))
    ELSE IF L < 0 /\ R < 0 /\ d < 0
    THEN GammaResult(TRUE, 0, {}, FALSE, FALSE)
    ELSE GammaResult(FALSE, 0, {}, TRUE, FALSE)

\* Int.Gamma2: int.go:141-188
Gamma2(L, R) == Gamma2At(L, R, MaxNest)

InitGamma ==
    /\ ReaderIdle /\ FmtIdle /\ PPIdle /\ DictIdle /\ IntIdle
    /\ gammaL \in Ints
    /\ gammaR \in Ints
    /\ gammaOut = NoGamma

\* L.Gamma2(R)
CallGamma2 ==
    /\ ~gammaOut.called
    /\ gammaOut' = Gamma2(gammaL, gammaR)
    /\ UNCHANGED <<gammaL, gammaR>>
    /\ UNCHANGED <<scanVars, fmtVars, ppVars, dictVars, intVars>>

NextGamma == CallGamma2

SpecGamma == InitGamma /\ [][NextGamma]_vars

----------------------------------------------------------------------------
(* Properties of Gamma2 *)

RECURSIVE Binomial(_, _)
\* the generalized binomial coefficient n (n-1) ... (n-k+1) / k! for k >= 0,
\* one factor of the product at a time
Binomial(n, k) ==
    IF k = 0 THEN 1 ELSE (Binomial(n, k - 1) * (n - k + 1)) \div k

\* the table of APL2 for L!R
BinomialTable(L, R) ==
    IF L >= 0 THEN (IF 0 <= R /\ R < L THEN 0 ELSE Binomial(R, L))
    ELSE IF L <= R /\ R < 0
    THEN (IF (R - L) % 2 = 0 THEN 1 ELSE -1) * Binomial(-L - 1, -R - 1)
    ELSE 0

\* C11: whenever L.Gamma2(R) returns ok, its value is the generalized
\* binomial coefficient R (R-1) ... (R-L+1) / L! for L >= 0 (R negative or
\* not, 0 for 0 <= R < L), and for L < 0 it is 0 unless L <= R < 0, where it
\* is (-1)^(R-L) times the binomial coefficient of -L-1 over -R-1.
C11_Gamma2IsBinomial ==
    (gammaOut.called /\ gammaOut.ok) =>
        /\ gammaOut.exact
        /\ gammaOut.v = BinomialTable(gammaL, gammaR)

\* a negative coefficient of two negative arguments, got by a nested call
C11_Witness ==
    /\ gammaOut.called /\ gammaOut.ok
    /\ gammaL < 0 /\ gammaR < 0
    /\ gammaOut.calls = 1
    /\ gammaOut.v < -1

\* C13: Gamma2 returns for every pair of ints after at most one nested call;
\* it never leaves by the return that follows the six sign cases; and when
\* it returns not-ok, some argument it gave to Gamma is above 20.
C13_Gamma2SixCases ==
    gammaOut.called =>
        /\ ~gammaOut.cut /\ gammaOut.calls <= 1
        /\ ~gammaOut.fell
        /\ ~gammaOut.ok => \E i \in gammaOut.args : i > GammaLimit

====
